---- MODULE Spec2Model ----
(***************************************************************************)
(* Interactive Newton fractal: the root state manager (RootManager.ts),    *)
(* the coordinate mapper and palette (utils.ts) and the uniform / root     *)
(* buffer upload path of the application (main.ts).                        *)
(*                                                                         *)
(* JavaScript numbers are modelled as exact extended rationals [n, d]:     *)
(* d > 0 is the finite value n/d in lowest terms, d = 0 is a non-finite    *)
(* value (n = 1: +Infinity, n = -1: -Infinity, n = 0: NaN).  Rounding of    *)
(* IEEE doubles and of the Float32Array upload is not modelled.            *)
(***************************************************************************)
EXTENDS Integers, Sequences, FiniteSets, TLC

(* ------------------------------------------------------------------ *)
(* Numbers                                                            *)
(* ------------------------------------------------------------------ *)
Abs(x) == IF x < 0 THEN -x ELSE x

Sgn(x) == IF x < 0 THEN -1 ELSE IF x > 0 THEN 1 ELSE 0

RECURSIVE Gcd(_, _)
Gcd(a, b) == IF b = 0 THEN a ELSE Gcd(b, a % b)

\* n/d as a number; a zero denominator gives +-Infinity or NaN as in IEEE 754.
R(n, d) ==
  IF d = 0 THEN [n |-> Sgn(n), d |-> 0]
  ELSE LET s == IF d < 0 THEN -1 ELSE 1
           g == Gcd(Abs(n), Abs(d))
       IN  [n |-> (s * n) \div g, d |-> (s * d) \div g]

Num(k) == [n |-> k, d |-> 1]

NaN == [n |-> 0, d |-> 0]

IsFinite(a) == a.d # 0

IsNaN(a) == a.d = 0 /\ a.n = 0

RAdd(a, b) ==
  IF a.d # 0 /\ b.d # 0 THEN R(a.n * b.d + b.n * a.d, a.d * b.d)
  ELSE IF IsNaN(a) \/ IsNaN(b) THEN NaN
  ELSE IF a.d = 0 /\ b.d = 0 THEN (IF a.n = b.n THEN a ELSE NaN)
  ELSE IF a.d = 0 THEN a ELSE b

RNeg(a) == [n |-> -a.n, d |-> a.d]

RSub(a, b) == RAdd(a, RNeg(b))

RMul(a, b) == R(a.n * b.n, a.d * b.d)

RDiv(a, b) ==
  IF IsNaN(a) \/ IsNaN(b) THEN NaN
  ELSE R(a.n * b.d * (IF b.n < 0 THEN -1 ELSE 1), a.d * Abs(b.n))

\* a < b; any comparison with NaN is false.
RLt(a, b) ==
  IF IsNaN(a) \/ IsNaN(b) THEN FALSE
  ELSE IF a.d # 0 /\ b.d # 0 THEN a.n * b.d < b.n * a.d
  ELSE IF a.d = 0 /\ b.d = 0 THEN a.n < b.n
  ELSE IF a.d = 0 THEN a.n < 0 ELSE b.n > 0

RAbs(a) == [n |-> Abs(a.n), d |-> a.d]

\* Math.max / Math.min: NaN if either argument is NaN.
RMax(a, b) == IF IsNaN(a) \/ IsNaN(b) THEN NaN ELSE IF RLt(a, b) THEN b ELSE a

RMin(a, b) == IF IsNaN(a) \/ IsNaN(b) THEN NaN ELSE IF RLt(b, a) THEN b ELSE a

\* The JavaScript % operator: the remainder has the sign of the dividend.
RMod(a, m) ==
  IF a.d = 0 \/ IsNaN(m) \/ m.n = 0 THEN NaN
  ELSE IF m.d = 0 THEN a
  ELSE LET q  == RDiv(a, m)
           tq == IF q.n >= 0 THEN q.n \div q.d ELSE -((-q.n) \div q.d)
       IN  RSub(a, RMul(m, Num(tq)))

\* Math.round: the nearest integer, halves rounded up.
RRound(a) == IF a.d = 0 THEN a ELSE Num((2 * a.n + a.d) \div (2 * a.d))

\* Assignment to an unsigned long attribute (canvas.width): truncation.
ToUint(a) == IF a.d = 0 \/ a.n < 0 THEN 0 ELSE a.n \div a.d

Complex(re, im) == [real |-> re, imag |-> im]

(* ------------------------------------------------------------------ *)
(* utils.ts: palette                                                  *)
(* ------------------------------------------------------------------ *)
\* The last lines of okhslToRgb: r + m, g + m, b + m clamped to [0, 1].
clampRgb(rgb, m) ==
  [r |-> RMax(Num(0), RMin(Num(1), RAdd(rgb[1], m))),
   g |-> RMax(Num(0), RMin(Num(1), RAdd(rgb[2], m))),
   b |-> RMax(Num(0), RMin(Num(1), RAdd(rgb[3], m)))]

\* The if-chain of okhslToRgb over the six hue sectors.
hueSector(hNorm, c, x, z) ==
  IF RLt(hNorm, R(1, 6)) THEN <<c, x, z>>
  ELSE IF RLt(hNorm, R(2, 6)) THEN <<x, c, z>>
  ELSE IF RLt(hNorm, R(3, 6)) THEN <<z, c, x>>
  ELSE IF RLt(hNorm, R(4, 6)) THEN <<z, x, c>>
  ELSE IF RLt(hNorm, R(5, 6)) THEN <<x, z, c>>
  ELSE <<c, z, x>>

\* okhslToRgb once hNorm and the chroma c are known.
hslToRgb(hNorm, c, l) ==
  clampRgb(hueSector(hNorm, c,
                     RMul(c, RSub(Num(1),
                                  RAbs(RSub(RMod(RMul(hNorm, Num(6)), Num(2)), Num(1))))),
                     Num(0)),
           RSub(l, RDiv(c, Num(2))))

okhslToRgb(okhsl) ==
  hslToRgb(RDiv(RMod(okhsl.h, Num(360)), Num(360)),
           RMul(RSub(Num(1), RAbs(RSub(RMul(Num(2), okhsl.l), Num(1)))), okhsl.s),
           okhsl.l)

\* colors[i] of the source is generateRootColors(numRoots)[i + 1] here.
generateRootColors(numRoots) ==
  [k \in 1..numRoots |->
     okhslToRgb([h |-> R((k - 1) * 360, numRoots), s |-> R(8, 10), l |-> R(6, 10)])]

\* config.minRoots / config.maxRoots as passed by initializeRootManager.
minRoots == 2

maxRoots == 16

\* generateRootColors tabulated once for the counts the manager can ask for.
paletteTable == [n \in 0..(maxRoots + 1) |-> generateRootColors(n)]

palette(n) == paletteTable[n]

(* ------------------------------------------------------------------ *)
(* utils.ts: coordinate mapper                                        *)
(* ------------------------------------------------------------------ *)
screenToComplex(screenX, screenY, canvasWidth, canvasHeight, vp) ==
  LET uvx == RDiv(screenX, canvasWidth)
      uvy == RDiv(screenY, canvasHeight)
      re  == RAdd(Num(-2), RMul(uvx, Num(4)))
      im  == RAdd(Num(-2), RMul(uvy, Num(4)))
  IN  Complex(RAdd(RDiv(RSub(re, vp.center.real), vp.zoom), vp.center.real),
              RAdd(RDiv(RSub(im, vp.center.imag), vp.zoom), vp.center.imag))

\* complexToScreen undoing the zoom about the origin instead of the centre.
complexToScreen_zoomAboutOrigin(complex, canvasWidth, canvasHeight, vp) ==
  LET re  == RMul(complex.real, vp.zoom)
      im  == RMul(complex.imag, vp.zoom)
      uvx == RDiv(RAdd(re, Num(2)), Num(4))
      uvy == RDiv(RAdd(im, Num(2)), Num(4))
  IN  [x |-> RMul(uvx, canvasWidth), y |-> RMul(uvy, canvasHeight)]

complexToScreen(complex, canvasWidth, canvasHeight, vp) ==
  LET re  == RAdd(RMul(RSub(complex.real, vp.center.real), vp.zoom), vp.center.real)
      im  == RAdd(RMul(RSub(complex.imag, vp.center.imag), vp.zoom), vp.center.imag)
      uvx == RDiv(RAdd(re, Num(2)), Num(4))
      uvy == RDiv(RAdd(im, Num(2)), Num(4))
  IN  [x |-> RMul(uvx, canvasWidth), y |-> RMul(uvy, canvasHeight)]

\* DEFAULT_ROOTS: the cube roots of unity; sqrt(3)/2 is carried to the three
\* decimals that fit the model's integers (0.8660254037844387 in the source).
DEFAULT_ROOTS ==
  << Complex(Num(1), Num(0)),
     Complex(R(-1, 2), R(433, 500)),
     Complex(R(-1, 2), R(-433, 500)) >>

(* ------------------------------------------------------------------ *)
(* Bounds of the model and the inputs the events draw from            *)
(* ------------------------------------------------------------------ *)
\* Events handled in one behaviour of Spec.
MaxSteps == 4

\* Events other than double-clicks on the canvas in one behaviour of SpecCap.
CapSteps == 2

\* Pointer positions (clientX, clientY) of the events.
Pts == { <<1, 1>>, <<3, 2>> }

\* The pointer position of the double-clicks that fill the root set in SpecCap.
CapPts == { <<1, 1>> }

\* The inputs of the counted events of SpecCap.
CapPartials == { [zoom |-> Num(2)] }

CapSizes == { << 5, 4 >> }

\* Layout sizes (clientWidth, clientHeight) of the canvas; the window opens
\* with the first.
InitialSize == << 4, 4 >>

Sizes == { InitialSize, << 5, 4 >> }

\* window.devicePixelRatio of the display, fixed for a run.
DprSet == { R(3, 2) }

\* Arguments of setViewport: any subset of the viewport's fields.
Partials ==
  { [zoom |-> Num(2)],
    [center |-> Complex(Num(1), Num(0))],
    [zoom |-> Num(1), center |-> Complex(Num(0), Num(0)), aspectRatio |-> Num(1)] }

(* ------------------------------------------------------------------ *)
(* State                                                              *)
(* ------------------------------------------------------------------ *)
VARIABLES
  roots,         \* RootManager.roots: sequence of RootElement
  container,     \* ids of the marker elements attached to config.container, in order
  viewport,      \* RootManager.viewport
  dragState,     \* RootManager.dragState
  nextId,        \* one more than the number of markers created so far
  now,           \* Date.now() as last read by addRootElement
  canvas,        \* the canvas: clientWidth, clientHeight, width, height
  dpr,           \* window.devicePixelRatio
  appViewport,   \* NewtonFractalApp.viewport
  uniformBuffer, \* contents of the GPU uniform buffer
  rootBuffer,    \* contents of the GPU root buffer
  emitted,       \* arguments of the onRootChange calls of the last handler
  lastOp,        \* the event handled last and its arguments
  steps,         \* number of counted events so far
  probe          \* the last evaluation of a pure function: its inputs and results

vars == << roots, container, viewport, dragState, nextId, now, canvas, dpr,
           appViewport, uniformBuffer, rootBuffer, emitted, lastOp, steps, probe >>

\* Number of vec4 slots for positions and for colours in the root buffer.
BufferSlots == 16

\* The canvas and the interactive layer share the client origin.
canvasRect == [left |-> Num(0), top |-> Num(0)]

NoId == 0

IdleDrag ==
  [isDragging |-> FALSE, rootId |-> NoId,
   startPos |-> [x |-> Num(0), y |-> Num(0)],
   offset |-> [x |-> Num(0), y |-> Num(0)]]

\* The suffixes Math.random().toString(36).substring(2, 11) can yield.
Suffixes == { 1, 2, 3 }

\* `root-${Date.now()}-${suffix}`: one id for each pair of a clock reading
\* (t >= 1) and a suffix; two pairs give the same id only if they are equal.
newId(t, rnd) == (t - 1) * Cardinality(Suffixes) + rnd

\* The clock reading and the suffix of the n-th id when no pair is drawn
\* twice: newId(freshTime(n), freshSuffix(n)) = n.
freshTime(n) == ((n - 1) \div Cardinality(Suffixes)) + 1

freshSuffix(n) == ((n - 1) % Cardinality(Suffixes)) + 1

\* this.config.canvas.width / window.devicePixelRatio (and height).
canvasWidth(cv, ratio) == RDiv(Num(cv.width), ratio)

canvasHeight(cv, ratio) == RDiv(Num(cv.height), ratio)

\* The rgb(...) text of a marker's background colour.
cssRgb(color) ==
  << RRound(RMul(color.r, Num(255))).n,
     RRound(RMul(color.g, Num(255))).n,
     RRound(RMul(color.b, Num(255))).n >>

updateRootColor(root) ==
  [root EXCEPT !.element.backgroundColor = cssRgb(root.color)]

updateRootPosition(root, cv, ratio, vp) ==
  LET screenPos == complexToScreen(root.complex, canvasWidth(cv, ratio),
                                   canvasHeight(cv, ratio), vp)
  IN  [root EXCEPT !.element.left = screenPos.x, !.element.top = screenPos.y]

updateAllRootPositions(rs, cv, ratio, vp) ==
  [i \in 1..Len(rs) |-> updateRootPosition(rs[i], cv, ratio, vp)]

\* The roots after addRootElement(complex, color) with the new id.
addRootElement(rs, id, complex, color, cv, ratio, vp) ==
  LET rootElement ==
        [id |-> id, complex |-> complex, color |-> color, isDragging |-> FALSE,
         element |-> [left |-> Num(0), top |-> Num(0),
                      backgroundColor |-> cssRgb(color), cursor |-> "grab"]]
  IN  Append(rs, updateRootPosition(rootElement, cv, ratio, vp))

\* this.roots.findIndex(r => r.id === rootId) + 1; 0 when there is none.
findIndex(rs, rootId) ==
  IF \E i \in 1..Len(rs) : rs[i].id = rootId
  THEN CHOOSE i \in 1..Len(rs) :
         /\ rs[i].id = rootId
         /\ \A j \in 1..(i - 1) : rs[j].id # rootId
  ELSE 0

getRoots(rs) == [i \in 1..Len(rs) |-> rs[i].complex]

getColors(rs) == [i \in 1..Len(rs) |-> rs[i].color]

\* The argument notifyRootChange passes to config.onRootChange.
notifyRootChange(rs) == [i \in 1..Len(rs) |-> rs[i].complex]

\* updateViewport: the aspect ratio of the canvas layout box.
updateViewport(vp, cv) ==
  [vp EXCEPT !.aspectRatio = RDiv(Num(cv.clientWidth), Num(cv.clientHeight))]

\* The argument taken as the whole viewport, absent fields at their defaults.
mergeViewport_replace(vp, partial) ==
  LET d == [zoom |-> Num(1), center |-> Complex(Num(0), Num(0)),
            aspectRatio |-> Num(1)]
  IN  [f \in {"zoom", "center", "aspectRatio"} |->
         IF f \in DOMAIN partial THEN partial[f] ELSE d[f]]

\* { ...this.viewport, ...viewport }
mergeViewport(vp, partial) ==
  [f \in {"zoom", "center", "aspectRatio"} |->
     IF f \in DOMAIN partial THEN partial[f] ELSE vp[f]]

(* ------------------------------------------------------------------ *)
(* main.ts: the consumer of the root changes                          *)
(* ------------------------------------------------------------------ *)
Min(a, b) == IF a < b THEN a ELSE b

\* The colours updateRoots takes while this.rootManager is not yet assigned.
fallbackColors(n) ==
  [i \in 1..n |-> [r |-> Num(IF i = 1 THEN 1 ELSE 0),
                   g |-> Num(IF i = 2 THEN 1 ELSE 0),
                   b |-> Num(IF i = 3 THEN 1 ELSE 0)]]

\* The Float32Array updateRoots writes to the root buffer: 16 position slots
\* and 16 colour slots, unwritten slots zero.
updateRoots(rts, colors) ==
  LET zero == << Num(0), Num(0), Num(0), Num(0) >>
  IN  [roots |-> [i \in 1..BufferSlots |->
                    IF i <= Min(Len(rts), BufferSlots)
                    THEN << rts[i].real, rts[i].imag, Num(0), Num(0) >> ELSE zero],
       colors |-> [i \in 1..BufferSlots |->
                    IF i <= Min(Len(colors), BufferSlots)
                    THEN << colors[i].r, colors[i].g, colors[i].b, Num(1) >> ELSE zero],
       rootsWritten |-> Min(Len(rts), BufferSlots),
       colorsWritten |-> Min(Len(colors), BufferSlots)]

\* numRoots is this.rootManager.getRoots().length, or 3 before it is assigned.
updateUniforms(cv, avp, numRoots) ==
  [resolution |-> << cv.width, cv.height >>,
   aspect_ratio |-> avp.aspectRatio,
   zoom |-> avp.zoom,
   center |-> avp.center,
   num_roots |-> numRoots]

\* resizeCanvas: the backing store follows the layout size.
resizeCanvas(size, ratio) ==
  LET r == IF IsNaN(ratio) \/ ratio.n = 0 THEN Num(1) ELSE ratio
  IN  [clientWidth |-> size[1], clientHeight |-> size[2],
       width |-> ToUint(RMul(Num(size[1]), r)),
       height |-> ToUint(RMul(Num(size[2]), r))]

(* ------------------------------------------------------------------ *)
(* RootManager.ts: the operations.  Each yields the fields it assigns  *)
(* and, in notify, the arguments of its onRootChange calls in order.   *)
(* ------------------------------------------------------------------ *)
\* The outcome of an operation that ends in notifyRootChange().
notified(rs) == [roots |-> rs, notify |-> << notifyRootChange(rs) >>]

\* The outcome of an operation that returns without notifying.
silent(rs) == [roots |-> rs, notify |-> << >>]

\* The body of startDrag once the root is found at index i.
startDragAt(rs, i, rootId, clientX, clientY) ==
  [roots |-> [rs EXCEPT ![i].isDragging = TRUE,
                        ![i].element.cursor = "grabbing"],
   dragState |->
     [isDragging |-> TRUE, rootId |-> rootId,
      startPos |-> [x |-> clientX, y |-> clientY],
      offset |-> [x |-> RSub(rs[i].element.left, clientX),
                  y |-> RSub(rs[i].element.top, clientY)]]]

startDrag(rs, ds, rootId, clientX, clientY) ==
  IF findIndex(rs, rootId) = 0 THEN [roots |-> rs, dragState |-> ds]
  ELSE startDragAt(rs, findIndex(rs, rootId), rootId, clientX, clientY)

\* The root at index i takes newComplex and its marker the matching place.
moveRoot(rs, i, newComplex, cv, ratio, vp) ==
  [rs EXCEPT ![i] = updateRootPosition([rs[i] EXCEPT !.complex = newComplex],
                                       cv, ratio, vp)]

\* handleDrag mapping the pointer with the viewport of construction instead of
\* the current one.
handleDrag_initialViewport(rs, ds, clientX, clientY, cv, ratio, vp) ==
  IF ~ds.isDragging \/ ds.rootId = NoId \/ findIndex(rs, ds.rootId) = 0
  THEN silent(rs)
  ELSE notified(moveRoot(rs, findIndex(rs, ds.rootId),
                         screenToComplex(RSub(clientX, canvasRect.left),
                                         RSub(clientY, canvasRect.top),
                                         canvasWidth(cv, ratio), canvasHeight(cv, ratio),
                                         [zoom |-> Num(1),
                                          center |-> Complex(Num(0), Num(0)),
                                          aspectRatio |-> vp.aspectRatio]),
                         cv, ratio, vp))

\* handleDrag without its closing notifyRootChange().
handleDrag_noNotify(rs, ds, clientX, clientY, cv, ratio, vp) ==
  IF ~ds.isDragging \/ ds.rootId = NoId \/ findIndex(rs, ds.rootId) = 0
  THEN silent(rs)
  ELSE silent(moveRoot(rs, findIndex(rs, ds.rootId),
                       screenToComplex(RSub(clientX, canvasRect.left),
                                       RSub(clientY, canvasRect.top),
                                       canvasWidth(cv, ratio), canvasHeight(cv, ratio),
                                       vp),
                       cv, ratio, vp))

\* handleDrag looking the root up by its isDragging flag instead of by the
\* rootId of the session.
handleDrag_byFlag(rs, ds, clientX, clientY, cv, ratio, vp) ==
  IF ~ds.isDragging \/ ds.rootId = NoId \/ ~\E i \in 1..Len(rs) : rs[i].isDragging
  THEN silent(rs)
  ELSE notified(moveRoot(rs, CHOOSE i \in 1..Len(rs) :
                               /\ rs[i].isDragging
                               /\ \A j \in 1..(i - 1) : ~rs[j].isDragging,
                         screenToComplex(RSub(clientX, canvasRect.left),
                                         RSub(clientY, canvasRect.top),
                                         canvasWidth(cv, ratio), canvasHeight(cv, ratio),
                                         vp),
                         cv, ratio, vp))

handleDrag(rs, ds, clientX, clientY, cv, ratio, vp) ==
  IF ~ds.isDragging \/ ds.rootId = NoId \/ findIndex(rs, ds.rootId) = 0
  THEN silent(rs)
  ELSE notified(moveRoot(rs, findIndex(rs, ds.rootId),
                         screenToComplex(RSub(clientX, canvasRect.left),
                                         RSub(clientY, canvasRect.top),
                                         canvasWidth(cv, ratio), canvasHeight(cv, ratio),
                                         vp),
                         cv, ratio, vp))

\* The root at index i, if any (i > 0), back in its idle display state.
releaseRoot(rs, i) ==
  IF i = 0 THEN rs
  ELSE [rs EXCEPT ![i].isDragging = FALSE, ![i].element.cursor = "grab"]

\* endDrag resetting the session but not the root's isDragging flag.
endDrag_keepsFlag(rs, ds) ==
  IF ~ds.isDragging \/ ds.rootId = NoId
  THEN [roots |-> rs, dragState |-> ds]
  ELSE [roots |-> rs, dragState |-> IdleDrag]

\* endDrag returning early when the dragged root is not found.
endDrag_returnsIfMissing(rs, ds) ==
  IF ~ds.isDragging \/ ds.rootId = NoId \/ findIndex(rs, ds.rootId) = 0
  THEN [roots |-> rs, dragState |-> ds]
  ELSE [roots |-> releaseRoot(rs, findIndex(rs, ds.rootId)), dragState |-> IdleDrag]

endDrag(rs, ds) ==
  IF ~ds.isDragging \/ ds.rootId = NoId
  THEN [roots |-> rs, dragState |-> ds]
  ELSE [roots |-> releaseRoot(rs, findIndex(rs, ds.rootId)), dragState |-> IdleDrag]

\* The recolouring loop also renaming each root after its index.
recolor_reindexed(rs, colors) ==
  [i \in 1..Len(rs) |->
     updateRootColor([rs[i] EXCEPT !.color = colors[i], !.id = i])]

\* roots.forEach((root, index) => { root.color = colors[index];
\* this.updateRootColor(root) })
recolor(rs, colors) ==
  [i \in 1..Len(rs) |-> updateRootColor([rs[i] EXCEPT !.color = colors[i]])]

\* The outcome of addRootAtPosition and removeRoot when they go through.
changed(rs, ids, added) ==
  [roots |-> rs, container |-> ids, added |-> added,
   notify |-> << notifyRootChange(rs) >>]

\* The outcome of addRootAtPosition and removeRoot when they return early.
rejected(rs, ids) ==
  [roots |-> rs, container |-> ids, added |-> FALSE, notify |-> << >>]

\* addRootAtPosition past its capacity test, colouring only the new root: the
\* others keep the colours they had.
addWithColors_incremental(rs, ids, id, complex, colors, cv, ratio, vp) ==
  changed(addRootElement(rs, id, complex, colors[Len(rs) + 1], cv, ratio, vp),
          Append(ids, id), TRUE)

\* addRootAtPosition past its capacity test, with the palette for the new count.
addWithColors(rs, ids, id, complex, colors, cv, ratio, vp) ==
  changed(addRootElement(recolor(rs, colors), id, complex, colors[Len(rs) + 1],
                         cv, ratio, vp),
          Append(ids, id), TRUE)

\* addRootAtPosition with the capacity test off by one (> for >=).
addRootAtPosition_offByOne(rs, ids, id, x, y, cv, ratio, vp) ==
  IF Len(rs) > maxRoots THEN rejected(rs, ids)
  ELSE addWithColors(rs, ids, id,
                     screenToComplex(x, y, canvasWidth(cv, ratio),
                                     canvasHeight(cv, ratio), vp),
                     palette(Len(rs) + 1), cv, ratio, vp)

addRootAtPosition(rs, ids, id, x, y, cv, ratio, vp) ==
  IF Len(rs) >= maxRoots THEN rejected(rs, ids)
  ELSE addWithColors(rs, ids, id,
                     screenToComplex(x, y, canvasWidth(cv, ratio),
                                     canvasHeight(cv, ratio), vp),
                     palette(Len(rs) + 1), cv, ratio, vp)

\* this.roots.splice(rootIndex, 1)
\* Removal that fills the hole with the last element.
splice_swapRemove(rs, rootIndex) ==
  [i \in 1..(Len(rs) - 1) |-> IF i = rootIndex THEN rs[Len(rs)] ELSE rs[i]]

splice(rs, rootIndex) ==
  [i \in 1..(Len(rs) - 1) |-> IF i < rootIndex THEN rs[i] ELSE rs[i + 1]]

\* The remaining roots with the palette for their count.
recolorRemaining(rs) == recolor(rs, palette(Len(rs)))

\* removeRoot with the floor test off by one (< for <=).
removeRoot_belowFloor(rs, ids, rootId) ==
  IF Len(rs) < minRoots \/ findIndex(rs, rootId) = 0 THEN rejected(rs, ids)
  ELSE changed(recolorRemaining(splice(rs, findIndex(rs, rootId))),
               splice(ids, findIndex(rs, rootId)), FALSE)

removeRoot(rs, ids, rootId) ==
  IF Len(rs) <= minRoots \/ findIndex(rs, rootId) = 0 THEN rejected(rs, ids)
  ELSE changed(recolorRemaining(splice(rs, findIndex(rs, rootId))),
               splice(ids, findIndex(rs, rootId)), FALSE)

\* The viewport assigned and every marker placed under it.
\* The viewport replaced without updateAllRootPositions().
withViewport_staleMarkers(rs, vp, cv, ratio) == [viewport |-> vp, roots |-> rs]

withViewport(rs, vp, cv, ratio) ==
  [viewport |-> vp, roots |-> updateAllRootPositions(rs, cv, ratio, vp)]

setViewport(rs, vp, partial, cv, ratio) ==
  withViewport(rs, mergeViewport(vp, partial), cv, ratio)

\* The resize listener of the RootManager: updateViewport, then
\* updateAllRootPositions.
onResize(rs, vp, cv, ratio) ==
  withViewport(rs, updateViewport(vp, cv), cv, ratio)

\* initializeDefaultRoots: the default roots with the palette for their count.
\* ids[k] is the id addRootElement draws for the k-th default root.
RECURSIVE addDefaults(_, _, _, _, _, _, _)
addDefaults(rs, k, ids, colors, cv, ratio, vp) ==
  IF k > Len(DEFAULT_ROOTS) THEN rs
  ELSE addDefaults(addRootElement(rs, ids[k], DEFAULT_ROOTS[k], colors[k],
                                  cv, ratio, vp),
                   k + 1, ids, colors, cv, ratio, vp)

initializeDefaultRoots(ids, cv, ratio, vp) ==
  addDefaults(<< >>, 1, ids, palette(Len(DEFAULT_ROOTS)), cv, ratio, vp)

(* ------------------------------------------------------------------ *)
(* The state after new RootManager(...) returned in                   *)
(* initializeRootManager: the constructor's onRootChange call ran      *)
(* while this.rootManager was still unassigned.                        *)
(* ------------------------------------------------------------------ *)
\* The record of an event: its name, the marker id, the pointer position or
\* size, and the partial viewport it came with (unused ones left empty).
Op(name, id, pt, partial) == [op |-> name, id |-> id, pt |-> pt, partial |-> partial]

NoPartial == << >>

NoPt == << 0, 0 >>

\* The callback taking its fallback colours, as if this.rootManager were unset.
onRootChange_fallback(payload, rs, cv, avp) ==
  [rootBuffer |-> updateRoots(payload, fallbackColors(Len(payload))),
   uniformBuffer |-> updateUniforms(cv, avp, 3)]

\* What the onRootChange callback leaves in the two buffers.
onRootChange(payload, rs, cv, avp) ==
  [rootBuffer |-> updateRoots(payload, getColors(rs)),
   uniformBuffer |-> updateUniforms(cv, avp, Len(getRoots(rs)))]

\* No pure function evaluated on its own yet.
NoProbe == [fn |-> "none"]

\* The viewport both classes start with.
defaultViewport ==
  [zoom |-> Num(1), center |-> Complex(Num(0), Num(0)), aspectRatio |-> Num(1)]

\* The state after the constructor drew the suffixes rnds for the default
\* roots, all at the clock reading t.
Constructed(t, rnds) ==
  \E ratio \in DprSet :
  \E cv \in { resizeCanvas(InitialSize, ratio) } :
  \E avp \in { updateViewport(defaultViewport, cv) } :
  \E vp \in { updateViewport(defaultViewport, cv) } :
  \E rs \in { initializeDefaultRoots([k \in 1..Len(DEFAULT_ROOTS) |-> newId(t, rnds[k])],
                                     cv, ratio, vp) } :
    /\ canvas = cv
    /\ dpr = ratio
    /\ appViewport = avp
    /\ viewport = vp
    /\ roots = rs
    /\ container = [i \in 1..Len(rs) |-> rs[i].id]
    /\ dragState = IdleDrag
    /\ nextId = Len(rs) + 1
    /\ now = t
    /\ emitted = << notifyRootChange(rs) >>
    /\ rootBuffer = updateRoots(notifyRootChange(rs), fallbackColors(Len(rs)))
    /\ uniformBuffer = updateUniforms(cv, avp, 3)
    /\ lastOp = Op("construct", NoId, NoPt, NoPartial)
    /\ steps = 0
    /\ probe = NoProbe

\* Construction with the three suffixes drawn different.
Init == Constructed(1, [k \in 1..Len(DEFAULT_ROOTS) |-> freshSuffix(k)])

Running == lastOp.op # "construct"

\* The buffers after the callbacks of a handler that emitted `notify`.
Publish(notify, rs) ==
  IF notify = << >>
  THEN UNCHANGED << rootBuffer, uniformBuffer >>
  ELSE \E got \in { onRootChange(notify[Len(notify)], rs, canvas, appViewport) } :
         /\ rootBuffer' = got.rootBuffer
         /\ uniformBuffer' = got.uniformBuffer

\* initializeRootManager, after the constructor: the first upload with the
\* manager's own colours.
InitialRootUpdate ==
  /\ lastOp.op = "construct"
  /\ rootBuffer' = updateRoots(getRoots(roots), getColors(roots))
  /\ uniformBuffer' = updateUniforms(canvas, appViewport, Len(getRoots(roots)))
  /\ emitted' = << >>
  /\ lastOp' = Op("initialUpdate", NoId, NoPt, NoPartial)
  /\ UNCHANGED << roots, container, viewport, dragState, nextId, now, canvas, dpr,
                  appViewport >>

\* pointerdown on the container; target is the id of the marker hit, NoId
\* when the target is no marker.
PointerDown(target, p) ==
  /\ Running
  /\ \E r \in { IF target = NoId THEN [roots |-> roots, dragState |-> dragState]
              ELSE startDrag(roots, dragState, target, Num(p[1]), Num(p[2])) } :
         /\ roots' = r.roots
         /\ dragState' = r.dragState
  /\ emitted' = << >>
  /\ lastOp' = Op("pointerdown", target, p, NoPartial)
  /\ UNCHANGED << container, viewport, nextId, now, canvas, dpr, appViewport,
                  uniformBuffer, rootBuffer >>

PointerMove(p) ==
  /\ Running
  /\ \E r \in { IF dragState.isDragging
              THEN handleDrag(roots, dragState, Num(p[1]), Num(p[2]),
                              canvas, dpr, viewport)
              ELSE [roots |-> roots, notify |-> << >>] } :
         /\ roots' = r.roots
         /\ emitted' = r.notify
         /\ Publish(r.notify, r.roots)
  /\ lastOp' = Op("pointermove", NoId, p, NoPartial)
  /\ UNCHANGED << container, viewport, dragState, nextId, now, canvas, dpr, appViewport >>

\* pointerup and pointercancel run the same handler body.
PointerEnd(name) ==
  /\ Running
  /\ \E r \in { IF dragState.isDragging THEN endDrag(roots, dragState)
              ELSE [roots |-> roots, dragState |-> dragState] } :
         /\ roots' = r.roots
         /\ dragState' = r.dragState
  /\ emitted' = << >>
  /\ lastOp' = Op(name, NoId, NoPt, NoPartial)
  /\ UNCHANGED << container, viewport, nextId, now, canvas, dpr, appViewport,
                  uniformBuffer, rootBuffer >>

PointerUp == PointerEnd("pointerup")

PointerCancel == PointerEnd("pointercancel")

\* dblclick on the canvas at clock reading t, where addRootElement draws the
\* suffix rnd.
DblClickCanvasAt(p, t, rnd) ==
  /\ Running
  /\ t >= now
  /\ \E r \in { addRootAtPosition(roots, container, newId(t, rnd),
                                RSub(Num(p[1]), canvasRect.left),
                                RSub(Num(p[2]), canvasRect.top),
                                canvas, dpr, viewport) } :
         /\ roots' = r.roots
         /\ container' = r.container
         /\ nextId' = IF r.added THEN nextId + 1 ELSE nextId
         /\ now' = IF r.added THEN t ELSE now
         /\ emitted' = r.notify
         /\ Publish(r.notify, r.roots)
  /\ lastOp' = Op("dblclick", NoId, p, NoPartial)
  /\ UNCHANGED << viewport, dragState, canvas, dpr, appViewport >>

\* dblclick on the canvas, the clock and Math.random giving a pair not drawn
\* before.
DblClickCanvas(p) == DblClickCanvasAt(p, freshTime(nextId), freshSuffix(nextId))

\* dblclick on the marker created with this id.
DblClickMarker(id) ==
  /\ Running
  /\ \E r \in { removeRoot(roots, container, id) } :
         /\ roots' = r.roots
         /\ container' = r.container
         /\ emitted' = r.notify
         /\ Publish(r.notify, r.roots)
  /\ lastOp' = Op("remove", id, NoPt, NoPartial)
  /\ UNCHANGED << viewport, dragState, nextId, now, canvas, dpr, appViewport >>

\* RootManager.setViewport called with a partial viewport.
SetViewport(partial) ==
  /\ Running
  /\ \E r \in { setViewport(roots, viewport, partial, canvas, dpr) } :
         /\ roots' = r.roots
         /\ viewport' = r.viewport
  /\ emitted' = << >>
  /\ lastOp' = Op("setViewport", NoId, NoPt, partial)
  /\ UNCHANGED << container, dragState, nextId, now, canvas, dpr, appViewport,
                  uniformBuffer, rootBuffer >>

\* The window's resize event: resizeCanvas of main.ts, registered first,
\* then the listener of the RootManager.
Resize(size) ==
  /\ Running
  /\ \E cv \in { resizeCanvas(size, dpr) } :
     \E avp \in { updateViewport(appViewport, cv) } :
     \E r1 \in { setViewport(roots, viewport, avp, cv, dpr) } :
     \E r2 \in { onResize(r1.roots, r1.viewport, cv, dpr) } :
       /\ canvas' = cv
       /\ appViewport' = avp
       /\ viewport' = r2.viewport
       /\ roots' = r2.roots
  /\ emitted' = << >>
  /\ lastOp' = Op("resize", NoId, size, NoPartial)
  /\ UNCHANGED << container, dragState, nextId, now, dpr, uniformBuffer, rootBuffer >>

\* One requestAnimationFrame callback: render().
RenderTick ==
  /\ Running
  /\ uniformBuffer' = updateUniforms(canvas, appViewport, Len(getRoots(roots)))
  /\ emitted' = << >>
  /\ lastOp' = Op("render", NoId, NoPt, NoPartial)
  /\ UNCHANGED << roots, container, viewport, dragState, nextId, now, canvas, dpr,
                  appViewport, rootBuffer >>

(* ------------------------------------------------------------------ *)
(* Specifications                                                     *)
(* ------------------------------------------------------------------ *)
\* The ids a pointer event or a double-click can name: every marker made so
\* far (its root may be gone by now), or none.
Markers == 1..(nextId - 1)

Counted(A) == steps < MaxSteps /\ A /\ steps' = steps + 1 /\ UNCHANGED probe

Next ==
  \/ InitialRootUpdate /\ UNCHANGED << steps, probe >>
  \/ \E t \in Markers \cup {NoId}, p \in Pts : Counted(PointerDown(t, p))
  \/ \E p \in Pts : Counted(PointerMove(p))
  \/ Counted(PointerUp)
  \/ Counted(PointerCancel)
  \/ \E p \in Pts : Counted(DblClickCanvas(p))
  \/ \E id \in Markers : Counted(DblClickMarker(id))
  \/ \E partial \in Partials : Counted(SetViewport(partial))
  \/ \E size \in Sizes : Counted(Resize(size))
  \/ Counted(RenderTick)

Spec == Init /\ [][Next]_vars

\* The markers the counted events of SpecCap name: the oldest and the newest.
CapMarkers == { id \in Markers : id = 1 \/ id = nextId - 1 }

\* The same events with the double-clicks on the canvas left uncounted, so
\* that the root set can be filled to maxRoots.
CountedCap(A) == steps < CapSteps /\ A /\ steps' = steps + 1 /\ UNCHANGED probe

NextCap ==
  \/ InitialRootUpdate /\ UNCHANGED << steps, probe >>
  \/ \E p \in CapPts : DblClickCanvas(p) /\ UNCHANGED << steps, probe >>
  \/ \E t \in CapMarkers, p \in CapPts : CountedCap(PointerDown(t, p))
  \/ \E p \in CapPts : CountedCap(PointerMove(p))
  \/ CountedCap(PointerUp)
  \/ CountedCap(PointerCancel)
  \/ \E id \in CapMarkers : CountedCap(DblClickMarker(id))
  \/ \E partial \in CapPartials : CountedCap(SetViewport(partial))
  \/ \E size \in CapSizes : CountedCap(Resize(size))
  \/ CountedCap(RenderTick)

SpecCap == Init /\ [][NextCap]_vars

\* Events handled in one behaviour of SpecIds.
IdSteps == 3

\* Construction with any three suffixes.
InitIds ==
  \E rnds \in [1..Len(DEFAULT_ROOTS) -> Suffixes] : Constructed(1, rnds)

\* The markers attached to the container.
LiveMarkers == { roots[i].id : i \in 1..Len(roots) }

CountedIds(A) == steps < IdSteps /\ A /\ steps' = steps + 1 /\ UNCHANGED probe

\* The events with the clock and Math.random free: a double-click on the
\* canvas comes in the millisecond of the last id or in the next, with any
\* suffix.
NextIds ==
  \/ InitialRootUpdate /\ UNCHANGED << steps, probe >>
  \/ \E p \in CapPts, t \in {now, now + 1}, rnd \in Suffixes :
       CountedIds(DblClickCanvasAt(p, t, rnd))
  \/ \E t \in LiveMarkers, p \in CapPts : CountedIds(PointerDown(t, p))
  \/ \E p \in CapPts : CountedIds(PointerMove(p))
  \/ CountedIds(PointerUp)
  \/ \E id \in LiveMarkers : CountedIds(DblClickMarker(id))
  \/ \E partial \in CapPartials : CountedIds(SetViewport(partial))

SpecIds == InitIds /\ [][NextIds]_vars

\* The state of the manager and of the buffers, which an evaluation of a pure
\* function leaves alone.
appVars == << roots, container, viewport, dragState, nextId, now, canvas, dpr,
              appViewport, uniformBuffer, rootBuffer, emitted, lastOp, steps >>

\* Inputs of the coordinate mapper: screen points, canvas sizes in CSS pixels,
\* and viewports, well-formed and malformed.
MapperPoints == { << Num(0), Num(0) >>, << Num(3), Num(2) >>, << R(7, 2), Num(5) >>,
                  << Num(-1), Num(9) >> }

MapperSizes == { << Num(4), Num(4) >>, << Num(8), Num(5) >>, << R(16, 3), Num(3) >> }

MapperViewports ==
  { [zoom |-> z, center |-> c, aspectRatio |-> a] :
      z \in { Num(1), Num(2), R(1, 3), Num(0), NaN, R(1, 0) },
      c \in { Complex(Num(0), Num(0)), Complex(Num(1), R(-1, 2)),
              Complex(NaN, Num(0)), Complex(Num(0), R(-1, 0)) },
      a \in { Num(1), R(8, 5), R(9, 16), NaN } }

\* fargment.wgsl, mix(e1, e2, e3): e1 * (1 - e3) + e2 * e3.
mix(e1, e2, e3) == RAdd(RMul(e1, RSub(Num(1), e3)), RMul(e2, e3))

\* fargment.wgsl, main: coord before the zoom, for the uv of the fragment.
\* The numbers are those of the mapper, so that the two can be compared; the
\* rounding of f32 is left out here.
main_span(uvx, uvy, aspect_ratio) ==
  IF RLt(Num(1), aspect_ratio)
  THEN Complex(mix(RMul(Num(-2), aspect_ratio), RMul(Num(2), aspect_ratio), uvx),
               mix(Num(-2), Num(2), uvy))
  ELSE Complex(mix(Num(-2), Num(2), uvx),
               mix(RDiv(Num(-2), aspect_ratio), RDiv(Num(2), aspect_ratio), uvy))

\* main: the coordinate handed to newton_root for the fragment of uv
\* (uvx, uvy) under the uniforms u: (coord - u.center) / u.zoom + u.center.
main_coord(uvx, uvy, u) ==
  Complex(RAdd(RDiv(RSub(main_span(uvx, uvy, u.aspect_ratio).real, u.center.real),
                    u.zoom), u.center.real),
          RAdd(RDiv(RSub(main_span(uvx, uvy, u.aspect_ratio).imag, u.center.imag),
                    u.zoom), u.center.imag))

\* screenToComplex of a point, complexToScreen of the result, and the
\* shader's coordinate of the fragment under the point, under one viewport
\* and canvas size.  The fragment under the point pt (CSS pixels) is at
\* pt * dpr of a backing store of size * dpr, the resolution updateUniforms
\* writes.
mapThereAndBack(pt, size, vp, complex) ==
  [fn |-> "mapper", screen |-> pt, size |-> size, viewport |-> vp,
   complex |-> complex,
   back |-> complexToScreen(complex, size[1], size[2], vp),
   shader |-> main_coord(RDiv(RMul(pt[1], dpr), RMul(size[1], dpr)),
                         RDiv(RMul(pt[2], dpr), RMul(size[2], dpr)),
                         updateUniforms([width |-> RMul(size[1], dpr),
                                         height |-> RMul(size[2], dpr)],
                                        vp, Len(DEFAULT_ROOTS)))]

MapPoint(pt, size, vp) ==
  /\ probe = NoProbe
  /\ probe' = mapThereAndBack(pt, size, vp,
                              screenToComplex(pt[1], pt[2], size[1], size[2], vp))
  /\ UNCHANGED appVars

NextMapper ==
  \E pt \in MapperPoints, size \in MapperSizes, vp \in MapperViewports :
    MapPoint(pt, size, vp)

SpecMapper == Init /\ [][NextMapper]_vars

(* ------------------------------------------------------------------ *)
(* fargment.wgsl: f32 arithmetic.  A value is m * 2^e with a mantissa   *)
(* of MantissaBits bits (24 in f32) and the exponent range of f32;      *)
(* results are truncated to the mantissa, a result beyond the range is  *)
(* the one non-finite value FNaN (f32: an infinity or a NaN), a result  *)
(* below it is zero.                                                    *)
(* ------------------------------------------------------------------ *)
MantissaBits == 12

\* Largest and smallest exponent of a normalised mantissa: f32 spans
\* 2^-126 .. 2^128.
MaxExp == 128 - MantissaBits

Pow2(k) == 2 ^ k

FZero == [m |-> 0, e |-> 0]

FNaN == [m |-> 0, e |-> MaxExp + 1]

FIsFinite(a) == a.e <= MaxExp

\* Truncating division by a power of two, toward zero.
ShiftRight(m, k) == IF m >= 0 THEN m \div Pow2(k) ELSE -((-m) \div Pow2(k))

\* The mantissa brought into [2^(bits-1), 2^bits).
RECURSIVE Normalise(_, _)
Normalise(m, e) ==
  IF m = 0 THEN FZero
  ELSE IF Abs(m) >= Pow2(MantissaBits) THEN Normalise(ShiftRight(m, 1), e + 1)
  ELSE IF Abs(m) < Pow2(MantissaBits - 1) THEN Normalise(m * 2, e - 1)
  ELSE IF e > MaxExp THEN FNaN
  ELSE IF e < -126 - (MantissaBits - 1) THEN FZero
  ELSE [m |-> m, e |-> e]

\* The f32 nearest below the integer k, and the f32 of the literal n/d.
FInt(k) == Normalise(k, 0)

\* a + b for finite a, b with a.e >= b.e (or b zero).
FAddAligned(a, b) ==
  IF a.e - b.e > MantissaBits + 1 THEN a
  ELSE Normalise(a.m + ShiftRight(b.m, a.e - b.e), a.e)

FAdd(a, b) ==
  IF ~FIsFinite(a) \/ ~FIsFinite(b) THEN FNaN
  ELSE IF a.m = 0 THEN b
  ELSE IF b.m = 0 THEN a
  ELSE IF a.e >= b.e THEN FAddAligned(a, b) ELSE FAddAligned(b, a)

FSub(a, b) == FAdd(a, IF FIsFinite(b) THEN [m |-> -b.m, e |-> b.e] ELSE FNaN)

FMul(a, b) ==
  IF ~FIsFinite(a) \/ ~FIsFinite(b) THEN FNaN
  ELSE Normalise(a.m * b.m, a.e + b.e)

\* a / b; a division by zero gives an infinity or a NaN.
FDiv(a, b) ==
  IF ~FIsFinite(a) \/ ~FIsFinite(b) \/ b.m = 0 THEN FNaN
  ELSE Normalise(Sgn(a.m) * Sgn(b.m) * ((Abs(a.m) * Pow2(MantissaBits)) \div Abs(b.m)),
                 a.e - b.e - MantissaBits)

\* a < b; false when either is not finite.
FLt(a, b) ==
  /\ FIsFinite(a)
  /\ FIsFinite(b)
  /\ FSub(a, b).m < 0

\* The largest k in lo..hi with k * k <= n (lo * lo <= n).
RECURSIVE ISqrt(_, _, _)
ISqrt(n, lo, hi) ==
  IF lo >= hi THEN lo
  ELSE IF ((lo + hi + 1) \div 2) * ((lo + hi + 1) \div 2) <= n
       THEN ISqrt(n, (lo + hi + 1) \div 2, hi)
       ELSE ISqrt(n, lo, ((lo + hi + 1) \div 2) - 1)

\* sqrt(a): the mantissa is widened so that the exponent is even.
FSqrt(a) ==
  IF ~FIsFinite(a) \/ a.m < 0 THEN FNaN
  ELSE IF a.m = 0 THEN FZero
  ELSE IF (a.e - MantissaBits) % 2 = 0
       THEN Normalise(ISqrt(a.m * Pow2(MantissaBits), 0, Pow2(MantissaBits + 1)),
                      (a.e - MantissaBits) \div 2)
       ELSE Normalise(ISqrt(a.m * Pow2(MantissaBits + 1), 0, Pow2(MantissaBits + 1)),
                      (a.e - MantissaBits - 1) \div 2)

\* The f32 of the literal n/d.
F(n, d) == FDiv(FInt(n), FInt(d))

(* ------------------------------------------------------------------ *)
(* fargment.wgsl: complex helpers and the Newton classifier            *)
(* ------------------------------------------------------------------ *)
vec2(x, y) == [x |-> x, y |-> y]

c_add(a, b) == vec2(FAdd(a.x, b.x), FAdd(a.y, b.y))

c_sub(a, b) == vec2(FSub(a.x, b.x), FSub(a.y, b.y))

c_mul(a, b) ==
  vec2(FSub(FMul(a.x, b.x), FMul(a.y, b.y)),
       FAdd(FMul(a.x, b.y), FMul(a.y, b.x)))

c_abs(a) == FSqrt(FAdd(FMul(a.x, a.x), FMul(a.y, a.y)))

\* c_div: denom is b.x*b.x + b.y*b.y.
c_div(a, b) ==
  vec2(FDiv(FAdd(FMul(a.x, b.x), FMul(a.y, b.y)), FAdd(FMul(b.x, b.x), FMul(b.y, b.y))),
       FDiv(FSub(FMul(a.y, b.x), FMul(a.x, b.y)), FAdd(FMul(b.x, b.x), FMul(b.y, b.y))))

\* The loop of evaluate_polynomial from index i on (0-based as in the
\* shader; rts[i + 1] is root_data.roots[i].xy); each pass binds the new
\* value of result before the next one runs.
RECURSIVE polynomialFrom(_, _, _, _, _)
polynomialFrom(i, result, z, rts, num_roots) ==
  IF i >= num_roots THEN result
  ELSE CHOOSE r \in { polynomialFrom(i + 1, next, z, rts, num_roots) :
                        next \in { c_mul(result, c_sub(z, rts[i + 1])) } } : TRUE

evaluate_polynomial(z, rts, num_roots) ==
  polynomialFrom(0, vec2(FInt(1), FZero), z, rts, num_roots)

\* The inner loop of evaluate_derivative: the product over j # i.
RECURSIVE termFrom(_, _, _, _, _, _)
termFrom(j, term, i, z, rts, num_roots) ==
  IF j >= num_roots THEN term
  ELSE CHOOSE r \in { termFrom(j + 1, next, i, z, rts, num_roots) :
                        next \in { IF i # j THEN c_mul(term, c_sub(z, rts[j + 1]))
                                             ELSE term } } : TRUE

RECURSIVE derivativeFrom(_, _, _, _, _)
derivativeFrom(i, result, z, rts, num_roots) ==
  IF i >= num_roots THEN result
  ELSE CHOOSE r \in { derivativeFrom(i + 1, next, z, rts, num_roots) :
                        next \in { c_add(result, termFrom(0, vec2(FInt(1), FZero),
                                                          i, z, rts, num_roots)) } } : TRUE

evaluate_derivative(z, rts, num_roots) ==
  derivativeFrom(0, vec2(FZero, FZero), z, rts, num_roots)

max_iter == 30

\* const eps = 1e-4f
eps == F(1, 10000)

\* The struct newton_root returns.
NewtonResult(root_index, root_value, iterations, final_distance) ==
  [root_index |-> root_index, root_value |-> root_value,
   iterations |-> iterations, final_distance |-> final_distance]

\* newton_root about to test i < max_iter with the iterate z.
running(i, z) ==
  [status |-> "running", i |-> i, z |-> z, exit |-> "none",
   result |-> NewtonResult(-1, vec2(FZero, FZero), 0, FZero)]

\* newton_root returned result; exit tells how the loop was left and i, z are
\* the loop counter and the iterate at that moment.
returned(i, z, exit, result) ==
  [status |-> "returned", i |-> i, z |-> z, exit |-> exit, result |-> result]

\* The return after the loop reporting the modulus of the last iterate as the
\* residual.
noRoot_lastResidual(i, z, exit) ==
  returned(i, z, exit, NewtonResult(-1, vec2(FZero, FZero), max_iter, c_abs(z)))

\* The return after the loop: no root was found.
noRoot(i, z, exit) ==
  returned(i, z, exit, NewtonResult(-1, vec2(FZero, FZero), max_iter, FZero))

\* The scan of the roots stopping at the highest close index.
RECURSIVE firstClose_fromTop(_, _, _, _)
firstClose_fromTop(root_idx, z, rts, num_roots) ==
  IF root_idx >= num_roots THEN num_roots
  ELSE IF FLt(c_abs(c_sub(z, rts[num_roots - root_idx])), eps)
       THEN num_roots - root_idx - 1
  ELSE firstClose_fromTop(root_idx + 1, z, rts, num_roots)

\* The first index from root_idx on whose root is closer to z than eps;
\* num_roots when there is none.
RECURSIVE firstClose(_, _, _, _)
firstClose(root_idx, z, rts, num_roots) ==
  IF root_idx >= num_roots THEN num_roots
  ELSE IF FLt(c_abs(c_sub(z, rts[root_idx + 1])), eps) THEN root_idx
  ELSE firstClose(root_idx + 1, z, rts, num_roots)

\* The return from inside the scan reporting the root's position in the list
\* counted from one.
newtonScan_oneBased(i, z, found, rts, num_roots) ==
  IF found < num_roots
  THEN returned(i, z, "converged",
                NewtonResult(found + 1, rts[found + 1], i,
                             c_abs(c_sub(z, rts[found + 1]))))
  ELSE running(i + 1, z)

\* The end of loop iteration i: found is the index the scan stopped at.
newtonScan(i, z, found, rts, num_roots) ==
  IF found < num_roots
  THEN returned(i, z, "converged",
                NewtonResult(found, rts[found + 1], i,
                             c_abs(c_sub(z, rts[found + 1]))))
  ELSE running(i + 1, z)

\* The body of the loop at iteration i, with f(z) and f'(z) computed: the
\* derivative test against 1e-10f, the Newton step, and the scan of the roots
\* from index 0 for the new iterate.
newtonStep(i, z, fz, fprime, rts, num_roots) ==
  IF FLt(c_abs(fprime), FMul(F(1, 100000), F(1, 100000))) THEN noRoot(i, z, "guard")
  ELSE CHOOSE r \in { newtonScan(i, next, firstClose(0, next, rts, num_roots),
                                  rts, num_roots) :
                        next \in { c_sub(z, c_div(fz, fprime)) } } : TRUE

\* One pass of the for loop of newton_root: the test i < max_iter and, if it
\* holds, the body.
newtonIteration(i, z, rts, num_roots) ==
  IF i >= max_iter THEN noRoot(i, z, "exhausted")
  ELSE newtonStep(i, z, evaluate_polynomial(z, rts, num_roots),
                  evaluate_derivative(z, rts, num_roots), rts, num_roots)

\* A complex number of the shader from two fractions.
Z(a, b, c, d) == vec2(F(a, b), F(c, d))

\* Root lists of the uniform buffer: two, three, four and sixteen roots, one
\* with a root stored twice and one with two roots closer than eps.
NewtonRootLists ==
  { << Z(1, 1, 0, 1), Z(-1, 1, 0, 1) >>,
    << Z(1, 1, 0, 1), Z(-1, 2, 433, 500), Z(-1, 2, -433, 500) >>,
    << Z(0, 1, 0, 1), Z(0, 1, 0, 1), Z(2, 1, 0, 1) >>,
    << Z(1, 20000, 0, 1), Z(0, 1, 0, 1), Z(2, 1, 0, 1) >>,
    << Z(1, 1, 0, 1), Z(-1, 1, 0, 1), Z(0, 1, 1, 1), Z(0, 1, -3, 2) >>,
    [k \in 1..16 |-> Z(((k - 1) % 4) * 2 - 3, 2, ((k - 1) \div 4) * 2 - 3, 2)] }

\* Seeds: the coordinates main hands to newton_root.
NewtonSeeds ==
  { Z(0, 1, 0, 1), Z(0, 1, 1, 1), Z(3, 2, 1, 3), Z(0, 1, 1, 3), Z(1, 1, 0, 1),
    Z(1, 1000, 0, 1), Z(-3, 2, 1, 7), Z(2, 1, 2, 1), Z(-1, 4, -7, 4),
    Z(1, 2, 1, 2) }

\* newton_root is called for one pixel.
NewtonStart(z0, rts) ==
  /\ probe = NoProbe
  /\ probe' = [fn |-> "newton", z0 |-> z0, roots |-> rts, num_roots |-> Len(rts),
               run |-> running(0, z0)]
  /\ UNCHANGED appVars

\* One pass of the loop of newton_root.
NewtonIterate ==
  /\ probe.fn = "newton"
  /\ probe.run.status = "running"
  /\ probe' = [probe EXCEPT !.run = newtonIteration(probe.run.i, probe.run.z,
                                                    probe.roots, probe.num_roots)]
  /\ UNCHANGED appVars

NextNewton ==
  \/ \E z0 \in NewtonSeeds, rts \in NewtonRootLists : NewtonStart(z0, rts)
  \/ NewtonIterate

SpecNewton == Init /\ [][NextNewton]_vars

(* ------------------------------------------------------------------ *)
(* The flat-colour shader (the fragment shader for f(z) = z^3 - 1)      *)
(* ------------------------------------------------------------------ *)
\* r1, r2, r3 of its newton_root, in the order they are tested.
flatRoots == << Z(1, 1, 0, 1), Z(-1, 2, 8660254, 10000000), Z(-1, 2, -8660254, 10000000) >>

\* Its NewtonResult: root_index and root_value.
FlatResult(root_index, root_value) ==
  [root_index |-> root_index, root_value |-> root_value]

flatRunning(i, z) ==
  [status |-> "running", i |-> i, z |-> z, result |-> FlatResult(-1, vec2(FZero, FZero))]

flatReturned(i, z, result) ==
  [status |-> "returned", i |-> i, z |-> z, result |-> result]

\* The three tests at the end of the loop body, for the new iterate z.
flatScan(i, z, found) ==
  IF found < Len(flatRoots) THEN flatReturned(i, z, FlatResult(found, flatRoots[found + 1]))
  ELSE flatRunning(i + 1, z)

\* One pass of the loop of its newton_root.
flatIteration(i, z) ==
  IF i >= max_iter THEN flatReturned(i, z, FlatResult(-1, vec2(FZero, FZero)))
  ELSE CHOOSE r \in { flatScan(i, next, firstClose(0, next, flatRoots, Len(flatRoots))) :
                        next \in { c_sub(z, c_div(c_sub(c_mul(z, c_mul(z, z)),
                                                        vec2(FInt(1), FZero)),
                                                  c_mul(vec2(FInt(3), FZero),
                                                        c_mul(z, z)))) } } : TRUE

\* root_color: red, green, blue, and black by default.  Colours are kept in
\* exact numbers: the rounding of f32 is left out of them.
root_color(idx) ==
  IF idx = 0 THEN << Num(1), Num(0), Num(0) >>
  ELSE IF idx = 1 THEN << Num(0), Num(1), Num(0) >>
  ELSE IF idx = 2 THEN << Num(0), Num(0), Num(1) >>
  ELSE << Num(0), Num(0), Num(0) >>

\* main: root_color(rootIdx) * 0.8 + vec3(0.2).
faded(color) == [k \in 1..3 |-> RAdd(RMul(color[k], R(4, 5)), R(1, 5))]

\* main: z0 of the fragment whose centre is fragCoord = (px + 1/2, py + 1/2).
flatSeed(px, py, resolution) ==
  vec2(FAdd(FMul(FInt(-2), FSub(FInt(1), F(2 * px + 1, 2 * resolution[1]))),
            FMul(FInt(2), F(2 * px + 1, 2 * resolution[1]))),
       FAdd(FMul(FInt(-2), FSub(FInt(1), F(2 * py + 1, 2 * resolution[2]))),
            FMul(FInt(2), F(2 * py + 1, 2 * resolution[2]))))

\* u.resolution of the flat shader's runs.
FlatResolution == << 5, 5 >>

NoColor == << >>

\* main is entered for the fragment (px, py) and calls newton_root.
FlatStart(px, py) ==
  /\ probe = NoProbe
  /\ probe' = [fn |-> "flat", frag |-> << px, py >>,
               run |-> flatRunning(0, flatSeed(px, py, FlatResolution)),
               color |-> NoColor]
  /\ UNCHANGED appVars

\* One pass of the loop of newton_root.
FlatIterate ==
  /\ probe.fn = "flat"
  /\ probe.run.status = "running"
  /\ probe' = [probe EXCEPT !.run = flatIteration(probe.run.i, probe.run.z)]
  /\ UNCHANGED appVars

\* main colours the fragment from the root index newton_root returned.
FlatShade ==
  /\ probe.fn = "flat"
  /\ probe.run.status = "returned"
  /\ probe.color = NoColor
  /\ probe' = [probe EXCEPT !.color = faded(root_color(probe.run.result.root_index))]
  /\ UNCHANGED appVars

NextFlat ==
  \/ \E px \in 0..(FlatResolution[1] - 1), py \in 0..(FlatResolution[2] - 1) :
       FlatStart(px, py)
  \/ FlatIterate
  \/ FlatShade

SpecFlat == Init /\ [][NextFlat]_vars

(* ------------------------------------------------------------------ *)
(* Properties                                                         *)
(* ------------------------------------------------------------------ *)
\* The RootSet of the specification: id, position and colour of each root,
\* in order.
RootSet(rs) ==
  [i \in 1..Len(rs) |-> [id |-> rs[i].id, position |-> rs[i].complex,
                         color |-> rs[i].color]]

Ids(rs) == { rs[i].id : i \in 1..Len(rs) }

Dragging(rs) == { i \in 1..Len(rs) : rs[i].isDragging }

\* The root buffer holds, slot by slot, the positions and colours of rs.
BufferHolds(buf, rs) ==
  /\ buf.rootsWritten = Len(rs)
  /\ buf.colorsWritten = Len(rs)
  /\ \A i \in 1..Len(rs) :
       /\ buf.roots[i] = << rs[i].complex.real, rs[i].complex.imag, Num(0), Num(0) >>
       /\ buf.colors[i] = << rs[i].color.r, rs[i].color.g, rs[i].color.b, Num(1) >>

\* C1: in every reachable state the number of roots is at least minRoots (2)
\* and at most maxRoots (16).
C1_RootCountWithinBounds ==
  /\ Len(roots) >= 2
  /\ Len(roots) <= 16

\* A double-click has just filled the root set to its maximum.
C1_Witness ==
  /\ lastOp.op = "dblclick"
  /\ emitted # << >>
  /\ Len(roots) = 16

\* C2: a double-click on the canvas while the set holds maxRoots roots, and a
\* removal while it holds minRoots roots, change nothing of the roots, the
\* markers, the drag session, the viewport or the buffers, and emit nothing.
C2_CapacityViolationRejected ==
  [][ ( \/ (lastOp'.op = "dblclick" /\ Len(roots) >= 16)
        \/ (lastOp'.op = "remove" /\ Len(roots) <= 2) )
      => /\ roots' = roots
         /\ container' = container
         /\ nextId' = nextId
         /\ dragState' = dragState
         /\ viewport' = viewport
         /\ rootBuffer' = rootBuffer
         /\ uniformBuffer' = uniformBuffer
         /\ emitted' = << >> ]_vars

\* A double-click arrived with the set full and was dropped without a
\* notification.
C2_Witness ==
  /\ lastOp.op = "dblclick"
  /\ emitted = << >>
  /\ Len(roots) = 16

\* C3: a pointermove during a drag of an existing root puts that root at
\* screenToComplex of the pointer under the viewport current at that moment;
\* ids, colours, order, length and every other root's position stay.
C3_DragMovesOnlyTheActiveRoot ==
  [][ ( /\ lastOp'.op = "pointermove"
        /\ dragState.isDragging
        /\ dragState.rootId \in Ids(roots) )
      => LET i == CHOOSE k \in 1..Len(roots) : roots[k].id = dragState.rootId
             p == lastOp'.pt
         IN  /\ Len(roots') = Len(roots)
             /\ \A j \in 1..Len(roots) :
                  /\ roots'[j].id = roots[j].id
                  /\ roots'[j].color = roots[j].color
                  /\ j # i => roots'[j].complex = roots[j].complex
             /\ roots'[i].complex =
                  [real |-> RAdd(RDiv(RSub(RAdd(Num(-2),
                               RMul(RDiv(Num(p[1]), RDiv(Num(canvas.width), dpr)), Num(4))),
                               viewport.center.real), viewport.zoom), viewport.center.real),
                   imag |-> RAdd(RDiv(RSub(RAdd(Num(-2),
                               RMul(RDiv(Num(p[2]), RDiv(Num(canvas.height), dpr)), Num(4))),
                               viewport.center.imag), viewport.zoom), viewport.center.imag)] ]_vars

\* A drag update has just moved a root under a viewport that is not the one
\* of construction.
C3_Witness ==
  /\ lastOp.op = "pointermove"
  /\ emitted # << >>
  /\ dragState.isDragging
  /\ viewport.zoom = Num(2)
  /\ \E i \in 1..Len(roots) :
       /\ roots[i].id = dragState.rootId
       /\ roots[i].id <= 3
       /\ roots[i].complex # DEFAULT_ROOTS[roots[i].id]

\* C4 as stated: after every mutation of the RootSet the consumer was handed
\* the ordered RootSet with the positions and the colours of all roots.
C4_EmitsPositionsAndColors ==
  [][ RootSet(roots') # RootSet(roots)
      => /\ emitted' # << >>
         /\ emitted'[Len(emitted')] =
              [i \in 1..Len(roots') |->
                 [position |-> roots'[i].complex, color |-> roots'[i].color]] ]_vars

\* C4 as the code has it: after every mutation of the RootSet the handler has
\* called the consumer once, with the ordered positions of the roots as they
\* are after the mutation and no colours; the consumer has read the colours
\* from the manager, and the root buffer holds both.
C4_EmitsPositionsConsumerReadsColors ==
  [][ RootSet(roots') # RootSet(roots)
      => /\ emitted' = << [i \in 1..Len(roots') |-> roots'[i].complex] >>
         /\ BufferHolds(rootBuffer', roots')
         /\ uniformBuffer'.num_roots = Len(roots') ]_vars

\* A drag update of a root added by a double-click has just been published.
C4_Witness ==
  /\ lastOp.op = "pointermove"
  /\ Len(emitted) = 1
  /\ Len(roots) = 4
  /\ dragState.rootId = 4

\* C5: at a render tick the uniform's root count, the number of positions and
\* the number of colours in the root buffer are equal, and slot by slot the
\* buffer holds the position and colour of the manager's root of that index.
C5_FrameIsOneSnapshot ==
  lastOp.op = "render"
    => /\ uniformBuffer.num_roots = Len(roots)
       /\ BufferHolds(rootBuffer, roots)

\* A frame is drawn after a root was added and a root was dragged.
C5_Witness ==
  /\ lastOp.op = "render"
  /\ Len(roots) = 4
  /\ \E i \in 1..Len(roots) :
       roots[i].id <= 3 /\ roots[i].complex # DEFAULT_ROOTS[roots[i].id]

\* C6: at most one root is flagged as dragging, and a flagged root is the one
\* the active drag session names.
C6_AtMostOneRootDragging ==
  /\ Cardinality(Dragging(roots)) <= 1
  /\ \A i \in Dragging(roots) :
       dragState.isDragging /\ dragState.rootId = roots[i].id

\* Two pointerdowns on different markers and one pointerup: the session is
\* Idle and a root is still flagged as dragging.
C6_Witness ==
  /\ lastOp.op = "pointerup"
  /\ ~dragState.isDragging
  /\ Dragging(roots) # {}

\* C7: a pointercancel during a drag returns the session to Idle, clears the
\* flag and the grabbing display of the dragged root, and leaves every root's
\* id, position and colour as the last drag update left them.
C7_CancelKeepsPosition ==
  [][ (lastOp'.op = "pointercancel" /\ dragState.isDragging)
      => /\ dragState' = IdleDrag
         /\ RootSet(roots') = RootSet(roots)
         /\ \A i \in 1..Len(roots) :
              /\ roots'[i].element.left = roots[i].element.left
              /\ roots'[i].element.top = roots[i].element.top
              /\ roots[i].id = dragState.rootId
                   => ~roots'[i].isDragging /\ roots'[i].element.cursor = "grab" ]_vars

\* A drag moved one of the default roots and was then cancelled.
C7_Witness ==
  /\ lastOp.op = "pointercancel"
  /\ steps = 3
  /\ ~dragState.isDragging
  /\ Dragging(roots) = {}
  /\ \E i \in 1..Len(roots) :
       roots[i].id <= 3 /\ roots[i].complex # DEFAULT_ROOTS[roots[i].id]

\* C8: an operation naming an id that is not in the RootSet is a no-op: a
\* pointerdown on it leaves session and roots alone, a removal changes and
\* publishes nothing; once the dragged root is gone, a pointermove changes
\* and publishes nothing and a pointerup or pointercancel ends the session.
C8_UnknownIdIsNoOp ==
  [][ /\ (lastOp'.op = "pointerdown" /\ lastOp'.id \notin Ids(roots))
         => roots' = roots /\ dragState' = dragState /\ emitted' = << >>
      /\ (lastOp'.op = "remove" /\ lastOp'.id \notin Ids(roots))
         => /\ roots' = roots /\ container' = container /\ emitted' = << >>
            /\ rootBuffer' = rootBuffer /\ uniformBuffer' = uniformBuffer
      /\ (dragState.isDragging /\ dragState.rootId \notin Ids(roots))
         => /\ lastOp'.op = "pointermove"
               => /\ roots' = roots /\ emitted' = << >>
                  /\ rootBuffer' = rootBuffer /\ dragState' = dragState
            /\ lastOp'.op \in {"pointerup", "pointercancel"}
               => roots' = roots /\ dragState' = IdleDrag ]_vars

\* The dragged root was removed and a drag update arrived for it.
C8_Witness ==
  /\ lastOp.op = "pointermove"
  /\ dragState.isDragging
  /\ dragState.rootId \notin Ids(roots)

\* C9: setViewport replaces the fields its argument has and keeps the others;
\* the roots' ids, positions, colours and flags, the drag session and the
\* buffers stay, nothing is emitted, and each marker is placed anew at the
\* screen position of its root under the new viewport.
C9_SetViewportMergesAndKeepsRoots ==
  [][ lastOp'.op = "setViewport"
      => /\ \A f \in {"zoom", "center", "aspectRatio"} :
              viewport'[f] = IF f \in DOMAIN lastOp'.partial
                             THEN lastOp'.partial[f] ELSE viewport[f]
         /\ RootSet(roots') = RootSet(roots)
         /\ dragState' = dragState
         /\ emitted' = << >>
         /\ rootBuffer' = rootBuffer
         /\ \A i \in 1..Len(roots) :
              /\ roots'[i].isDragging = roots[i].isDragging
              /\ roots'[i].element.backgroundColor = roots[i].element.backgroundColor
              /\ roots'[i].element.cursor = roots[i].element.cursor
              /\ roots'[i].element.left =
                   RMul(RDiv(RAdd(RAdd(RMul(RSub(roots[i].complex.real,
                          viewport'.center.real), viewport'.zoom),
                          viewport'.center.real), Num(2)), Num(4)),
                        RDiv(Num(canvas.width), dpr))
              /\ roots'[i].element.top =
                   RMul(RDiv(RAdd(RAdd(RMul(RSub(roots[i].complex.imag,
                          viewport'.center.imag), viewport'.zoom),
                          viewport'.center.imag), Num(2)), Num(4)),
                        RDiv(Num(canvas.height), dpr)) ]_vars

\* Two calls in a row: the second replaced the centre and kept the zoom the
\* first had set.
C9_Witness ==
  /\ lastOp.op = "setViewport"
  /\ DOMAIN lastOp.partial = {"center"}
  /\ viewport.zoom = Num(2)
  /\ viewport.center = Complex(Num(1), Num(0))

\* C10: with n roots, the colour of the root at index i is
\* generateRootColors(n)[i], for every i.
C10_PaletteFollowsCount ==
  [i \in 1..Len(roots) |-> roots[i].color] = generateRootColors(Len(roots))

\* A root was added and a root was then removed.
C10_Witness ==
  /\ lastOp.op = "remove"
  /\ emitted # << >>
  /\ nextId = 5
  /\ Len(roots) = 3

\* The ids of the roots, in order.
IdSeq(rs) == [i \in 1..Len(rs) |-> rs[i].id]

WellFormed(vp) ==
  /\ IsFinite(vp.zoom) /\ RLt(Num(0), vp.zoom)
  /\ IsFinite(vp.center.real) /\ IsFinite(vp.center.imag)
  /\ IsFinite(vp.aspectRatio) /\ RLt(Num(0), vp.aspectRatio)

\* C12: for every screen point, every positive canvas width and height and
\* every well-formed viewport (finite, zoom > 0), complexToScreen of
\* screenToComplex of the point, both under that viewport, is the point.
C12_RoundTrip ==
  (probe.fn = "mapper" /\ WellFormed(probe.viewport))
    => probe.back = [x |-> probe.screen[1], y |-> probe.screen[2]]

\* A point off the canvas origin went there and back under a viewport with a
\* zoom other than 1 and a centre other than 0 on a canvas that is not square.
C12_Witness ==
  /\ probe.fn = "mapper"
  /\ probe.screen = << R(7, 2), Num(5) >>
  /\ probe.size = << R(16, 3), Num(3) >>
  /\ probe.viewport.zoom = R(1, 3)
  /\ probe.viewport.center = Complex(Num(1), R(-1, 2))
  /\ probe.complex # Complex(Num(0), Num(0))
  /\ probe.back = [x |-> R(7, 2), y |-> Num(5)]

\* The call of newton_root under way or returned.
Classifying == probe.fn = "newton"

Returned == Classifying /\ probe.run.status = "returned"

\* The NewtonResult of the returned call.
Result == probe.run.result

\* What a returned result looks like: an index that is -1 or names a root, an
\* iteration count within the cap, a residual that is not negative, and for a
\* root the distance of the last iterate to it, below eps.
ResultInRange(p) ==
  /\ p.run.result.root_index \in -1..(p.num_roots - 1)
  /\ p.run.result.iterations \in 0..max_iter
  /\ FIsFinite(p.run.result.final_distance)
  /\ p.run.result.final_distance.m >= 0
  /\ p.run.result.root_index >= 0 =>
       /\ p.run.result.root_value = p.roots[p.run.result.root_index + 1]
       /\ p.run.result.final_distance =
            c_abs(c_sub(p.run.z, p.roots[p.run.result.root_index + 1]))
       /\ FLt(p.run.result.final_distance, eps)

\* C13: newton_root ends within max_iter passes of its loop (each step of a
\* call either returns or starts the next pass, and no pass starts beyond
\* max_iter), and what it returns has root_index -1 or in [0, num_roots),
\* iterations in [0, max_iter], a residual >= 0, and for root_index >= 0 the
\* residual is the distance of the final iterate to that root and is below eps.
C13_ClassifierTerminatesWithResultInRange ==
  [][probe'.fn = "newton" =>
       /\ probe'.run.i \in 0..max_iter
       /\ probe'.run.status = "returned" => ResultInRange(probe')
       /\ probe.fn = "newton" =>
            \/ probe'.run.status = "returned"
            \/ probe'.run.i = probe.run.i + 1 /\ probe.run.i < max_iter]_vars

C13_Witness ==
  /\ Returned
  /\ Result.root_index >= 1
  /\ Result.iterations > 2
  /\ Result.final_distance.m > 0

\* The distance of the iterate of the call to the root at index k (from 0).
DistanceTo(k) == c_abs(c_sub(probe.run.z, probe.roots[k + 1]))

\* C16: when the derivative guard fires in pass k of the loop, newton_root
\* returns root_index -1 and iterations = k, the pass the guard fired in.
C16_GuardReportsItsIteration ==
  (Returned /\ probe.run.exit = "guard") =>
    /\ Result.root_index = -1
    /\ Result.iterations = probe.run.i

C16_Witness ==
  /\ Returned
  /\ probe.run.exit = "guard"
  /\ probe.run.i = 1
  /\ Result.iterations = max_iter

\* C17: when all max_iter passes run without the iterate coming within eps
\* of a root, newton_root returns root_index -1, iterations = max_iter and a
\* residual of 0.
C17_ExhaustionReportsNoRoot ==
  (Returned /\ probe.run.exit = "exhausted") =>
    /\ probe.run.i = max_iter
    /\ Result.root_index = -1
    /\ Result.iterations = max_iter
    /\ Result.final_distance = FZero
    /\ \A k \in 0..(probe.num_roots - 1) : ~FLt(DistanceTo(k), eps)

C17_Witness ==
  /\ Returned
  /\ probe.run.exit = "exhausted"
  /\ probe.run.z # probe.z0
  /\ probe.num_roots = 16

\* C18: the root newton_root returns is the one of lowest index among the
\* roots within eps of the final iterate, and the residual is the distance to
\* that root.
C18_LowestCloseIndexWins ==
  (Returned /\ Result.root_index >= 0) =>
    /\ FLt(DistanceTo(Result.root_index), eps)
    /\ \A k \in 0..(Result.root_index - 1) : ~FLt(DistanceTo(k), eps)
    /\ Result.final_distance = DistanceTo(Result.root_index)

\* Two roots lie within eps of the final iterate, at different distances.
C18_Witness ==
  /\ Returned
  /\ Result.root_index >= 0
  /\ \E k \in (Result.root_index + 1)..(probe.num_roots - 1) :
       /\ FLt(DistanceTo(k), eps)
       /\ DistanceTo(k) # Result.final_distance

\* The roots in array order, each with its id and position.
Order(rs) == [i \in 1..Len(rs) |-> [id |-> rs[i].id, complex |-> rs[i].complex]]

\* C14: the order of the roots is the order of insertion and survives a
\* removal: a double-click on the canvas leaves the roots as they were or puts
\* one root after all of them, a removal leaves them as they were or deletes
\* the root of that id and moves the later ones down by one, and the events of
\* a drag keep every id at its index.
C14_OrderIsInsertionOrder ==
  [][ /\ lastOp'.op = "dblclick"
           => \/ Order(roots') = Order(roots)
              \/ /\ Len(roots') = Len(roots) + 1
                 /\ SubSeq(Order(roots'), 1, Len(roots)) = Order(roots)
                 /\ SubSeq(container', 1, Len(roots)) = container
      /\ lastOp'.op = "remove"
           => \/ Order(roots') = Order(roots)
              \/ \E k \in 1..Len(roots) :
                   /\ roots[k].id = lastOp'.id
                   /\ Order(roots') = SubSeq(Order(roots), 1, k - 1)
                                        \o SubSeq(Order(roots), k + 1, Len(roots))
                   /\ container' = SubSeq(container, 1, k - 1)
                                      \o SubSeq(container, k + 1, Len(roots))
      /\ lastOp'.op \in {"pointerdown", "pointermove", "pointerup", "pointercancel"}
           => /\ IdSeq(roots') = IdSeq(roots)
              /\ container' = container ]_vars

\* A root that was not the last one has been removed after a root was added:
\* the roots left are the second default root, the third and the added one.
C14_Witness ==
  /\ lastOp.op = "remove"
  /\ lastOp.id = 1
  /\ IdSeq(roots) = << 2, 3, 4 >>
  /\ container = << 2, 3, 4 >>

\* The layout of the probe is the one its viewport was computed for:
\* aspectRatio is clientWidth / clientHeight.
AspectOfCanvas(p) == p.viewport.aspectRatio = RDiv(p.size[1], p.size[2])

\* C15: for every well-formed viewport, whatever its aspectRatio, the
\* coordinate screenToComplex gives a screen point is the coordinate main
\* gives the fragment under that point.
C15_MapperAgreesWithShader ==
  (probe.fn = "mapper" /\ WellFormed(probe.viewport) /\ AspectOfCanvas(probe))
    => probe.complex = probe.shader

\* On a canvas 8 wide and 5 high the mapper and the shader differ on the real
\* axis, the longer one, and agree on the other.
C15_Witness ==
  /\ probe.fn = "mapper"
  /\ WellFormed(probe.viewport)
  /\ probe.size = << Num(8), Num(5) >>
  /\ AspectOfCanvas(probe)
  /\ probe.complex.real # probe.shader.real
  /\ probe.complex.imag = probe.shader.imag

\* A viewport with a NaN or an infinity in it, or with a zoom of zero.
Malformed(vp) ==
  \/ ~IsFinite(vp.zoom) \/ vp.zoom = Num(0)
  \/ ~IsFinite(vp.center.real) \/ ~IsFinite(vp.center.imag)
  \/ ~IsFinite(vp.aspectRatio)

\* C19: screenToComplex and complexToScreen, called with a malformed viewport,
\* do not return a coordinate with a NaN or an infinite component.
C19_MalformedViewportYieldsNoNonFiniteCoordinate ==
  (probe.fn = "mapper" /\ Malformed(probe.viewport))
    => /\ IsFinite(probe.complex.real) /\ IsFinite(probe.complex.imag)
       /\ IsFinite(probe.back.x) /\ IsFinite(probe.back.y)

\* With a zoom of zero and everything else in order, screenToComplex returned
\* an infinite real part and a NaN imaginary part.
C19_Witness ==
  /\ probe.fn = "mapper"
  /\ probe.viewport = [zoom |-> Num(0), center |-> Complex(Num(0), Num(0)),
                       aspectRatio |-> Num(1)]
  /\ probe.screen = << Num(3), Num(2) >>
  /\ probe.size = << Num(4), Num(4) >>
  /\ probe.complex = Complex(R(1, 0), NaN)

\* The fragment has been coloured.
Shaded == probe.fn = "flat" /\ probe.color # NoColor

Black == << Num(0), Num(0), Num(0) >>

\* C20: the flat shader outputs black, (0, 0, 0), for a fragment whose
\* root_index is -1, and for a root index the root's colour moved toward gray:
\* no channel below the root colour's, none above 1, and not the root colour
\* itself.
C20_NoRootIsBlack ==
  Shaded =>
    /\ probe.run.result.root_index = -1 => probe.color = Black
    /\ probe.run.result.root_index >= 0 =>
         /\ probe.color # root_color(probe.run.result.root_index)
         /\ \A k \in 1..3 :
              /\ ~RLt(probe.color[k], root_color(probe.run.result.root_index)[k])
              /\ ~RLt(Num(1), probe.color[k])

\* The fragment at the centre of the canvas, whose seed is 0, was coloured
\* (0.2, 0.2, 0.2) after newton_root returned -1.
C20_Witness ==
  /\ Shaded
  /\ probe.frag = << 2, 2 >>
  /\ probe.run.result.root_index = -1
  /\ probe.color = << R(1, 5), R(1, 5), R(1, 5) >>

\* C21: while the session is idle, pointermove, pointerup and pointercancel
\* leave the roots, the viewport and the session as they were and notify
\* nobody; and whenever a root that stays in the set has another position
\* after a step, the step was a pointermove during a drag whose session names
\* that root.
C21_PointerEventsOutsideADragDoNothing ==
  [][ /\ (~dragState.isDragging
           /\ lastOp'.op \in {"pointermove", "pointerup", "pointercancel"})
          => /\ roots' = roots
             /\ viewport' = viewport
             /\ dragState' = dragState
             /\ emitted' = << >>
      /\ \A i \in 1..Len(roots), j \in 1..Len(roots') :
           (roots[i].id = roots'[j].id /\ roots[i].complex # roots'[j].complex)
             => /\ lastOp'.op = "pointermove"
                /\ dragState.isDragging
                /\ dragState.rootId = roots[i].id ]_vars

\* A pointermove arrived while the session was idle, after a drag that had
\* moved the first root away from its default position had ended.
C21_Witness ==
  /\ lastOp.op = "pointermove"
  /\ ~dragState.isDragging
  /\ emitted = << >>
  /\ roots[1].id = 1
  /\ roots[1].complex # DEFAULT_ROOTS[1]

\* The marker of the root at index i sits where complexToScreen puts the
\* root under the current viewport and canvas size, in the root's colour.
MarkerShowsRoot(i) ==
  /\ roots[i].element.left =
       complexToScreen(roots[i].complex, canvasWidth(canvas, dpr),
                       canvasHeight(canvas, dpr), viewport).x
  /\ roots[i].element.top =
       complexToScreen(roots[i].complex, canvasWidth(canvas, dpr),
                       canvasHeight(canvas, dpr), viewport).y
  /\ roots[i].element.backgroundColor = cssRgb(roots[i].color)

\* C22: after a double-click on the canvas or on a marker, a pointermove, a
\* setViewport and a resize, the container holds one marker for each root, in
\* the order of the roots, and none besides, and every marker shows its root.
C22_MarkersFollowRoots ==
  lastOp.op \in {"dblclick", "remove", "pointermove", "setViewport", "resize"}
    => /\ container = IdSeq(roots)
       /\ \A i, j \in 1..Len(container) : container[i] = container[j] => i = j
       /\ \A i \in 1..Len(roots) : MarkerShowsRoot(i)

\* Four roots, one of them added, after the canvas was resized to a layout
\* 5 wide and 4 high.
C22_Witness ==
  /\ lastOp.op = "resize"
  /\ canvas.clientWidth = 5
  /\ viewport.aspectRatio = R(5, 4)
  /\ Len(roots) = 4
  /\ container = << 1, 2, 3, 4 >>

====
